---- MODULE Spec2Model ----
(***************************************************************************)
(* Model of firefart/redirector (src/main.go).                             *)
(*                                                                         *)
(* Two specifications share this module:                                   *)
(*   SpecServe  one connection's requests travelling through the handler   *)
(*              that routes() builds: mux router, CombinedLoggingHandler,  *)
(*              recoverPanic, catchAllHandler (http.Redirect).             *)
(*   Spec       main() and the goroutine that runs srv.ListenAndServe():   *)
(*              signal registration, signal delivery, the context          *)
(*              deadline, srv.Shutdown and process exit.                   *)
(*                                                                         *)
(* main.go is modelled statement by statement.  The packages it calls      *)
(* (net/http, os/signal, gorilla/mux, gorilla/handlers) are modelled by    *)
(* the behaviour their documentation states for the calls main.go makes.   *)
(*                                                                         *)
(* A string is represented by the sequence of its pieces between "/":      *)
(* "/a//b" is <<"", "a", "", "b">>, "/" is <<"", "">>, "" is <<"">>.       *)
(***************************************************************************)
EXTENDS Integers, Sequences, FiniteSets, TLC

VARIABLES
    \* ---- configuration (flags, main.go:33-37) ----
    redirect,     \* -redirect: the redirect target
    wait,         \* -graceful-timeout, in clock ticks
    \* ---- request pipeline (SpecServe) ----
    req,          \* the request being served
    pc,           \* position in the handler chain: [ph, k]
    hs,           \* http.Redirect's progress inside catchAllHandler
    w,            \* the connection's http.ResponseWriter
    logger,       \* gorilla/handlers responseLogger (status, size)
    logged,       \* access log lines written for the current request
    errLogged,    \* logrus error lines written for the current request
    resp,         \* what the client got for the last finished request
    served,       \* number of requests finished so far
    recovered,    \* number of panics recoverPanic has recovered so far
    \* ---- lifecycle (Spec) ----
    pcMain,       \* main(): the statement it is at
    pcSrv,        \* the goroutine of main.go:57-61
    srvErr,       \* what srv.ListenAndServe() returned
    srvLogged,    \* log.Error(err) of main.go:59 has run
    inShutdown,   \* http.Server: Shutdown has been called
    listening,    \* http.Server: the listener is open and tracked
    registered,   \* signals relayed to c by signal.Notify
    c,            \* the channel of main.go:63 (capacity 1)
    nsig,         \* signals the environment has sent so far
    now,          \* the clock, in ticks
    deadline,     \* the deadline of ctx (main.go:67), -1 before
    sdOutcome,    \* srv.Shutdown: "none", "pending", "complete", "expired"
    sdActive,     \* connections in flight when srv.Shutdown was called
    sigActive,    \* connections in flight when main received the signal
    shutdownErr,  \* what srv.Shutdown returned: "none", "nil", "deadline"
    conn,         \* connections: "free", "active", "done", "aborted"
    exited,       \* the process has ended
    exitCode,     \* its exit status
    fatalLogged   \* log.Fatal(err) of main.go:70 has run

serveVars == <<req, pc, hs, w, logger, logged, errLogged, resp, served, recovered>>
lifeVars == <<pcMain, pcSrv, srvErr, srvLogged, inShutdown, listening, registered,
              c, nsig, now, deadline, sdOutcome, sdActive, sigActive, shutdownErr,
              conn, exited, exitCode, fatalLogged>>
vars == <<redirect, wait, serveVars, lifeVars>>

\* what the lifecycle actions and the request actions leave alone
serveFrame == <<redirect, wait, serveVars>>
lifeFrame == <<redirect, wait, lifeVars>>

----------------------------------------------------------------------------
\* Bounds of the model.

\* longest request path, in pieces after the leading "/"
MaxSegs == 2
\* requests served one after the other on the connection of SpecServe
MaxRequests == 2

----------------------------------------------------------------------------
\* Strings.

Last(s) == s[Len(s)]
Front(s) == SubSeq(s, 1, Len(s) - 1)

Segs == {"", "a", ".", ".."}
Schemes == {"https:", "http:"}

\* every string "/" ++ s with s of 1..MaxSegs pieces
Paths == { <<"">> \o s : s \in UNION { [1..n -> Segs] : n \in 1..MaxSegs } }
Queries == {"", "x=1"}
Methods == {"GET", "POST"}

\* -redirect values: the default, a relative reference, an absolute path
DefaultRedirect == <<"https:", "", "google.com">>
Targets == { DefaultRedirect, <<"example.com">>, <<"", "landing">> }

Root == <<"", "">>

\* path.Clean of a rooted path: drop "" and "." pieces, let ".." remove the
\* piece before it (at the root it is dropped), never end in "/" except "/".
RECURSIVE CleanStack(_, _)
CleanStack(segs, stack) ==
    IF segs = <<>> THEN stack
    ELSE LET s == Head(segs) IN
         CleanStack(Tail(segs),
                    IF s \in {"", "."} THEN stack
                    ELSE IF s = ".." THEN (IF stack = <<>> THEN stack ELSE Front(stack))
                    ELSE Append(stack, s))

PathClean(p) ==
    LET stack == CleanStack(Tail(p), <<>>) IN
    IF stack = <<>> THEN Root ELSE <<"">> \o stack

HasSuffixSlash(p) == Len(p) >= 2 /\ Last(p) = ""

\* clean up but preserve a trailing slash (mux cleanPath, http.Redirect)
CleanKeepSlash(p) ==
    LET np == PathClean(p) IN
    IF HasSuffixSlash(p) /\ np # Root THEN Append(np, "") ELSE np

\* gorilla/mux cleanPath: "" is "/", a path is made rooted, then cleaned
cleanPath(p) ==
    IF p = <<"">> THEN Root
    ELSE CleanKeepSlash(IF Head(p) # "" THEN <<"">> \o p ELSE p)

\* url.Parse(u).Scheme # "" and .Host # "" for the Targets above
HasScheme(u) == Head(u) \in Schemes
HasHost(u) == Len(u) >= 3 /\ u[2] = "" /\ u[1] \in Schemes \cup {""}

\* path.Split(p): everything up to and including the last "/"
SplitDir(p) == Append(Front(p), "")

\* dir ++ u for a dir that ends in "/"
Join(dir, u) == Front(dir) \o u

\* http.Redirect: the Location it sends for target u on a request to oldpath
RedirectLocation(u, oldpath) ==
    IF ~HasScheme(u) /\ ~HasHost(u)
    THEN LET op  == IF oldpath = <<"">> THEN Root ELSE oldpath
             abs == IF u = <<"">> \/ Head(u) # "" THEN Join(SplitDir(op), u) ELSE u
         IN  CleanKeepSlash(abs)
    ELSE u

----------------------------------------------------------------------------
\* http.ResponseWriter.

NoURL == [url |-> <<>>, query |-> ""]
NoHeader == [Location |-> NoURL, Connection |-> "", ContentType |-> ""]
NewWriter == [header |-> NoHeader, wroteHeader |-> FALSE, status |-> 0,
              sent |-> NoHeader, body |-> <<>>]
NewLogger == [status |-> 200, size |-> 0]

ErrorBody == "There was an error processing your request"
LinkBody == "<a href>Moved Permanently</a>."

\* the first WriteHeader fixes the status and the headers that are sent;
\* a later one is superfluous and changes nothing
WriteHeader(rw, code) ==
    IF rw.wroteHeader THEN rw
    ELSE [rw EXCEPT !.wroteHeader = TRUE, !.status = code, !.sent = rw.header]

\* Write sends the header with 200 first if none was written
Write(rw, chunk) ==
    LET rw1 == WriteHeader(rw, 200) IN [rw1 EXCEPT !.body = Append(@, chunk)]

----------------------------------------------------------------------------
\* The handler chain of routes() (main.go:76-82).

\* routes() with the two Use calls in the other order
routes_RecoverFirst == <<"recoverPanic", "loggingMiddleware", "catchAllHandler">>

\* r.Use(loggingMiddleware); r.Use(recoverPanic); PathPrefix("/") -> handler.
\* mux runs the middlewares in the order of the Use calls, the first outermost.
routes == <<"loggingMiddleware", "recoverPanic", "catchAllHandler">>

\* where a request's handler may raise a fault: nowhere, or before one of the
\* three things http.Redirect does
Faults == {"none", "beforeLocation", "beforeWriteHeader", "afterWriteHeader"}

NoReq == [method |-> "GET", path |-> Root, query |-> "", fault |-> "none"]
Idle == [ph |-> "idle", k |-> 0]

Frame(name) == pc.k \in 1..Len(routes) /\ routes[pc.k] = name

\* a write made by frame k goes through the responseLogger that
\* CombinedLoggingHandler puts around the writer, if that handler is outside k
Wrapped(k) == \E j \in 1..(k - 1) : routes[j] = "loggingMiddleware"

ServeInit ==
    /\ req = NoReq
    /\ pc = Idle
    /\ hs = 0
    /\ w = NewWriter
    /\ logger = NewLogger
    /\ logged = <<>>
    /\ errLogged = 0
    /\ resp = [dropped |-> FALSE, status |-> 0, header |-> NoHeader, body |-> <<>>]
    /\ served = 0
    /\ recovered = 0

\* net/http reads the next request of the connection and calls srv.Handler
NewRequest ==
    /\ pc.ph = "idle"
    /\ served < MaxRequests
    /\ \E m \in Methods, p \in Paths, q \in Queries, f \in Faults :
          req' = [method |-> m, path |-> p, query |-> q, fault |-> f]
    /\ pc' = [ph |-> "call", k |-> 0]
    /\ hs' = 0
    /\ w' = NewWriter
    /\ logger' = NewLogger
    /\ logged' = <<>>
    /\ errLogged' = 0
    /\ UNCHANGED <<resp, served, recovered>>
    /\ UNCHANGED lifeFrame

\* mux.Router.ServeHTTP of the router mux.NewRouter() returns (SkipClean is
\* off): a path that is not clean is answered with 301 to the cleaned URL,
\* before any route or middleware; else PathPrefix("/") matches and the
\* middlewares are run around the route's handler.
RouterServeHTTP ==
    /\ pc = [ph |-> "call", k |-> 0]
    /\ LET p == cleanPath(req.path) IN
       IF p # req.path
       THEN /\ w' = WriteHeader([w EXCEPT !.header.Location =
                                    [url |-> p, query |-> req.query]], 301)
            /\ pc' = [ph |-> "ret", k |-> 0]
       ELSE /\ w' = w
            /\ pc' = [ph |-> "call", k |-> 1]
    /\ UNCHANGED <<req, hs, logger, logged, errLogged, resp, served, recovered>>
    /\ UNCHANGED lifeFrame

\* loggingMiddleware (main.go:88-90): handlers.CombinedLoggingHandler wraps
\* the writer and calls the next handler
LoggingCall ==
    /\ pc.ph = "call" /\ Frame("loggingMiddleware")
    /\ pc' = [pc EXCEPT !.k = @ + 1]
    /\ UNCHANGED <<req, hs, w, logger, logged, errLogged, resp, served, recovered>>
    /\ UNCHANGED lifeFrame

\* ... and after the next handler returned writes one line with the status
\* and size its responseLogger saw.  It defers nothing: a panic of the next
\* handler passes through it and no line is written.
LoggingReturn ==
    /\ pc.ph \in {"ret", "panic"} /\ Frame("loggingMiddleware")
    /\ logged' = IF pc.ph = "ret"
                 THEN Append(logged, [method |-> req.method, path |-> req.path,
                                      status |-> logger.status, size |-> logger.size])
                 ELSE logged
    /\ pc' = [pc EXCEPT !.k = @ - 1]
    /\ UNCHANGED <<req, hs, w, logger, errLogged, resp, served, recovered>>
    /\ UNCHANGED lifeFrame

\* recoverPanic (main.go:102-110): arm the deferred function, call next
RecoverCall ==
    /\ pc.ph = "call" /\ Frame("recoverPanic")
    /\ pc' = [pc EXCEPT !.k = @ + 1]
    /\ UNCHANGED <<req, hs, w, logger, logged, errLogged, resp, served, recovered>>
    /\ UNCHANGED lifeFrame

\* logError (main.go:92-100) on writer rw: Connection: close, then
\* http.Error(w, text, 500): content type, WriteHeader(500), the text
logError(rw) ==
    Write(WriteHeader([rw EXCEPT !.header.Connection = "close",
                                 !.header.ContentType = "text/plain"], 500),
          ErrorBody)

\* recoverPanic whose deferred function does not call recover(): the panic
\* goes on to the caller
RecoverDeferred_NoRecover ==
    /\ pc.ph \in {"ret", "panic"} /\ Frame("recoverPanic")
    /\ pc' = [pc EXCEPT !.k = @ - 1]
    /\ UNCHANGED <<req, hs, w, logger, logged, errLogged, resp, served, recovered>>
    /\ UNCHANGED lifeFrame

\* the deferred function of recoverPanic (main.go:104-108): recover() is
\* non-nil exactly when next.ServeHTTP panicked; then logError answers and
\* the panic ends here
RecoverDeferred ==
    /\ pc.ph \in {"ret", "panic"} /\ Frame("recoverPanic")
    /\ IF pc.ph = "panic"
       THEN /\ w' = logError(w)
            /\ logger' = IF Wrapped(pc.k)
                         THEN [status |-> 500, size |-> logger.size + 1]
                         ELSE logger
            /\ errLogged' = errLogged + 2
            /\ recovered' = recovered + 1
       ELSE UNCHANGED <<w, logger, errLogged, recovered>>
    /\ pc' = [ph |-> "ret", k |-> pc.k - 1]
    /\ UNCHANGED <<req, hs, logged, resp, served>>
    /\ UNCHANGED lifeFrame

InHandler(step) ==
    /\ pc.ph = "call" /\ Frame("catchAllHandler")
    /\ hs = step

\* catchAllHandler (main.go:84-86) is http.Redirect(w, r, redirect, 301):
\* it sets Location (and a content type for GET) ...
RedirectSetLocation ==
    /\ InHandler(0) /\ req.fault # "beforeLocation"
    /\ w' = [w EXCEPT !.header.Location =
                          [url |-> RedirectLocation(redirect, req.path), query |-> ""],
                      !.header.ContentType =
                          IF req.method = "GET" THEN "text/html" ELSE @]
    /\ hs' = 1
    /\ UNCHANGED <<req, pc, logger, logged, errLogged, resp, served, recovered>>
    /\ UNCHANGED lifeFrame

\* ... writes the header with the code ...
RedirectWriteHeader ==
    /\ InHandler(1) /\ req.fault # "beforeWriteHeader"
    /\ w' = WriteHeader(w, 301)
    /\ logger' = IF Wrapped(pc.k) THEN [logger EXCEPT !.status = 301] ELSE logger
    /\ hs' = 2
    /\ UNCHANGED <<req, pc, logged, errLogged, resp, served, recovered>>
    /\ UNCHANGED lifeFrame

\* ... and, for GET, a short body; then the handler returns
RedirectWriteBody ==
    /\ InHandler(2) /\ req.fault # "afterWriteHeader"
    /\ IF req.method = "GET"
       THEN /\ w' = Write(w, LinkBody)
            /\ logger' = IF Wrapped(pc.k) THEN [logger EXCEPT !.size = @ + 1] ELSE logger
       ELSE UNCHANGED <<w, logger>>
    /\ hs' = 0
    /\ pc' = [ph |-> "ret", k |-> pc.k - 1]
    /\ UNCHANGED <<req, logged, errLogged, resp, served, recovered>>
    /\ UNCHANGED lifeFrame

\* the fault of this request: the handler panics where req.fault says
HandlerPanic ==
    /\ pc.ph = "call" /\ Frame("catchAllHandler")
    /\ \/ hs = 0 /\ req.fault = "beforeLocation"
       \/ hs = 1 /\ req.fault = "beforeWriteHeader"
       \/ hs = 2 /\ req.fault = "afterWriteHeader"
    /\ hs' = 0
    /\ pc' = [ph |-> "panic", k |-> pc.k - 1]
    /\ UNCHANGED <<req, w, logger, logged, errLogged, resp, served, recovered>>
    /\ UNCHANGED lifeFrame

\* net/http after srv.Handler returned: the response is finished (200 if the
\* handler wrote no header).  A panic that reaches net/http is recovered by
\* its connection goroutine, which closes the connection without a response.
ServerFinish ==
    /\ pc.ph \in {"ret", "panic"} /\ pc.k = 0
    /\ resp' = IF pc.ph = "panic"
               THEN [dropped |-> TRUE, status |-> 0, header |-> NoHeader, body |-> <<>>]
               ELSE LET f == WriteHeader(w, 200) IN
                    [dropped |-> FALSE, status |-> f.status, header |-> f.sent,
                     body |-> f.body]
    /\ served' = served + 1
    /\ pc' = Idle
    /\ UNCHANGED <<req, hs, w, logger, logged, errLogged, recovered>>
    /\ UNCHANGED lifeFrame

NextServe ==
    \/ NewRequest
    \/ RouterServeHTTP
    \/ LoggingCall
    \/ RecoverCall
    \/ RedirectSetLocation
    \/ RedirectWriteHeader
    \/ RedirectWriteBody
    \/ HandlerPanic
    \/ RecoverDeferred
    \/ LoggingReturn
    \/ ServerFinish

----------------------------------------------------------------------------
\* main() and the serving goroutine (main.go:48-74).

\* connections the server can have at once
MaxConns == 2
\* largest -graceful-timeout, in ticks
MaxWait == 2
\* signals the environment sends
MaxSignals == 2

\* the clock runs from the creation of ctx until past every deadline
MaxTime == MaxWait + 1

Conns == 1..MaxConns
Signals == {"SIGINT", "SIGTERM"}
Signum == [SIGINT |-> 2, SIGTERM |-> 15]

Active == { i \in Conns : conn[i] = "active" }

LifeInit ==
    /\ pcMain = "go57"
    /\ pcSrv = "none"
    /\ srvErr = "none"
    /\ srvLogged = FALSE
    /\ inShutdown = FALSE
    /\ listening = FALSE
    /\ registered = {}
    /\ c = <<>>
    /\ nsig = 0
    /\ now = 0
    /\ deadline = -1
    /\ sdOutcome = "none"
    /\ sdActive = {}
    /\ sigActive = {}
    /\ shutdownErr = "none"
    /\ conn = [i \in Conns |-> "free"]
    /\ exited = FALSE
    /\ exitCode = 0
    /\ fatalLogged = FALSE

\* the process ends: every goroutine stops, requests in flight are cut off
Exit(code) ==
    /\ exited' = TRUE
    /\ exitCode' = code
    /\ conn' = [i \in Conns |-> IF conn[i] = "active" THEN "aborted" ELSE conn[i]]

\* main.go:57  go func() { ... }()
MainGo ==
    /\ ~exited /\ pcMain = "go57"
    /\ pcSrv' = "las58"
    /\ pcMain' = "make63"
    /\ UNCHANGED <<srvErr, srvLogged, inShutdown, listening, registered, c, nsig, now,
                   deadline, sdOutcome, sdActive, sigActive, shutdownErr, conn, exited,
                   exitCode, fatalLogged>>
    /\ UNCHANGED serveFrame

\* main.go:63  c := make(chan os.Signal, 1)
MainMakeChan ==
    /\ ~exited /\ pcMain = "make63"
    /\ c' = <<>>
    /\ pcMain' = "notify64"
    /\ UNCHANGED <<pcSrv, srvErr, srvLogged, inShutdown, listening, registered, nsig,
                   now, deadline, sdOutcome, sdActive, sigActive, shutdownErr, conn,
                   exited, exitCode, fatalLogged>>
    /\ UNCHANGED serveFrame

\* main.go:64  signal.Notify(c, syscall.SIGINT)
MainNotifyInt ==
    /\ ~exited /\ pcMain = "notify64"
    /\ registered' = registered \cup {"SIGINT"}
    /\ pcMain' = "notify65"
    /\ UNCHANGED <<pcSrv, srvErr, srvLogged, inShutdown, listening, c, nsig, now,
                   deadline, sdOutcome, sdActive, sigActive, shutdownErr, conn, exited,
                   exitCode, fatalLogged>>
    /\ UNCHANGED serveFrame

\* main.go:65  signal.Notify(c, syscall.SIGTERM)
MainNotifyTerm ==
    /\ ~exited /\ pcMain = "notify65"
    /\ registered' = registered \cup {"SIGTERM"}
    /\ pcMain' = "recv66"
    /\ UNCHANGED <<pcSrv, srvErr, srvLogged, inShutdown, listening, c, nsig, now,
                   deadline, sdOutcome, sdActive, sigActive, shutdownErr, conn, exited,
                   exitCode, fatalLogged>>
    /\ UNCHANGED serveFrame

\* main.go:66  <-c   (blocks until c holds a signal; the value is dropped)
MainRecv ==
    /\ ~exited /\ pcMain = "recv66"
    /\ c # <<>>
    /\ c' = Tail(c)
    /\ sigActive' = Active
    /\ pcMain' = "ctx67"
    /\ UNCHANGED <<pcSrv, srvErr, srvLogged, inShutdown, listening, registered, nsig,
                   now, deadline, sdOutcome, sdActive, shutdownErr, conn, exited,
                   exitCode, fatalLogged>>
    /\ UNCHANGED serveFrame

\* main.go:67  ctx, cancel := context.WithTimeout(context.Background(), wait)
MainContext ==
    /\ ~exited /\ pcMain = "ctx67"
    /\ deadline' = now + wait
    /\ pcMain' = "shutdown69"
    /\ UNCHANGED <<pcSrv, srvErr, srvLogged, inShutdown, listening, registered, c, nsig,
                   now, sdOutcome, sdActive, sigActive, shutdownErr, conn, exited,
                   exitCode, fatalLogged>>
    /\ UNCHANGED serveFrame

\* main.go:69 with srv.Close() in place of srv.Shutdown(ctx): the listeners
\* and every connection are closed at once
MainShutdown_Close ==
    /\ ~exited /\ pcMain = "shutdown69"
    /\ inShutdown' = TRUE
    /\ listening' = FALSE
    /\ sdActive' = Active
    /\ conn' = [i \in Conns |-> IF conn[i] = "active" THEN "aborted" ELSE conn[i]]
    /\ sdOutcome' = "complete"
    /\ pcMain' = "wait69"
    /\ UNCHANGED <<pcSrv, srvErr, srvLogged, registered, c, nsig, now, deadline,
                   sigActive, shutdownErr, exited, exitCode, fatalLogged>>
    /\ UNCHANGED serveFrame

\* main.go:69  srv.Shutdown(ctx) is called: the server is marked as shutting
\* down, its listeners and idle connections are closed.  The shutdown is
\* complete when no connection is in flight; it has failed when ctx expires
\* before that.
MainShutdown ==
    /\ ~exited /\ pcMain = "shutdown69"
    /\ inShutdown' = TRUE
    /\ listening' = FALSE
    /\ sdActive' = Active
    /\ sdOutcome' = IF Active = {} THEN "complete"
                    ELSE IF now >= deadline THEN "expired"
                    ELSE "pending"
    /\ pcMain' = "wait69"
    /\ UNCHANGED <<pcSrv, srvErr, srvLogged, registered, c, nsig, now, deadline,
                   sigActive, shutdownErr, conn, exited, exitCode, fatalLogged>>
    /\ UNCHANGED serveFrame

\* main.go:69  srv.Shutdown(ctx) returns: nil when the shutdown completed,
\* ctx.Err() when ctx expired first
MainShutdownReturn ==
    /\ ~exited /\ pcMain = "wait69"
    /\ sdOutcome \in {"complete", "expired"}
    /\ shutdownErr' = IF sdOutcome = "complete" THEN "nil" ELSE "deadline"
    /\ pcMain' = "ret69"
    /\ UNCHANGED <<pcSrv, srvErr, srvLogged, inShutdown, listening, registered, c, nsig,
                   now, deadline, sdOutcome, sdActive, sigActive, conn, exited, exitCode,
                   fatalLogged>>
    /\ UNCHANGED serveFrame

\* main.go:70 with log.Error in place of log.Fatal: main goes on to os.Exit(0)
MainFatal_ExitZero ==
    /\ ~exited /\ pcMain = "ret69"
    /\ shutdownErr # "nil"
    /\ fatalLogged' = TRUE
    /\ Exit(0)
    /\ pcMain' = "exited"
    /\ UNCHANGED <<pcSrv, srvErr, srvLogged, inShutdown, listening, registered, c, nsig,
                   now, deadline, sdOutcome, sdActive, sigActive, shutdownErr>>
    /\ UNCHANGED serveFrame

\* main.go:69-71  if err != nil { log.Fatal(err) }: logs and exits with 1
MainFatal ==
    /\ ~exited /\ pcMain = "ret69"
    /\ shutdownErr # "nil"
    /\ fatalLogged' = TRUE
    /\ Exit(1)
    /\ pcMain' = "exited"
    /\ UNCHANGED <<pcSrv, srvErr, srvLogged, inShutdown, listening, registered, c, nsig,
                   now, deadline, sdOutcome, sdActive, sigActive, shutdownErr>>
    /\ UNCHANGED serveFrame

\* main.go:73 with os.Exit(1)
MainExit_One ==
    /\ ~exited /\ pcMain = "ret69"
    /\ shutdownErr = "nil"
    /\ Exit(1)
    /\ pcMain' = "exited"
    /\ UNCHANGED <<pcSrv, srvErr, srvLogged, inShutdown, listening, registered, c, nsig,
                   now, deadline, sdOutcome, sdActive, sigActive, shutdownErr,
                   fatalLogged>>
    /\ UNCHANGED serveFrame

\* main.go:72-73  log.Info("shutting down"); os.Exit(0)
MainExit ==
    /\ ~exited /\ pcMain = "ret69"
    /\ shutdownErr = "nil"
    /\ Exit(0)
    /\ pcMain' = "exited"
    /\ UNCHANGED <<pcSrv, srvErr, srvLogged, inShutdown, listening, registered, c, nsig,
                   now, deadline, sdOutcome, sdActive, sigActive, shutdownErr,
                   fatalLogged>>
    /\ UNCHANGED serveFrame

\* ---- the goroutine of main.go:57-61 ----

srvUnchanged == <<pcMain, registered, c, nsig, now, deadline, sdOutcome, sdActive,
                  sigActive, shutdownErr, exited, exitCode, fatalLogged>>

\* main.go:58  srv.ListenAndServe() starts: a server that is already shutting
\* down returns http.ErrServerClosed at once
SrvListenAndServe ==
    /\ ~exited /\ pcSrv = "las58"
    /\ IF inShutdown
       THEN srvErr' = "ErrServerClosed" /\ pcSrv' = "err58"
       ELSE srvErr' = srvErr /\ pcSrv' = "listen"
    /\ UNCHANGED <<srvLogged, inShutdown, listening, conn>>
    /\ UNCHANGED srvUnchanged
    /\ UNCHANGED serveFrame

\* net.Listen("tcp", host) binds the address
SrvListenOk ==
    /\ ~exited /\ pcSrv = "listen"
    /\ pcSrv' = "serve"
    /\ UNCHANGED <<srvErr, srvLogged, inShutdown, listening, conn>>
    /\ UNCHANGED srvUnchanged
    /\ UNCHANGED serveFrame

\* net.Listen fails (the address is in use): ListenAndServe returns the error
SrvListenFail ==
    /\ ~exited /\ pcSrv = "listen"
    /\ srvErr' = "bind"
    /\ pcSrv' = "err58"
    /\ UNCHANGED <<srvLogged, inShutdown, listening, conn>>
    /\ UNCHANGED srvUnchanged
    /\ UNCHANGED serveFrame

\* a server whose Serve does not look at the shutdown mark before it
\* registers the listener
SrvServe_NoShutdownCheck ==
    /\ ~exited /\ pcSrv = "serve"
    /\ srvErr' = srvErr /\ pcSrv' = "accepting" /\ listening' = TRUE
    /\ UNCHANGED <<srvLogged, inShutdown, conn>>
    /\ UNCHANGED srvUnchanged
    /\ UNCHANGED serveFrame

\* srv.Serve(ln) registers the listener, unless Shutdown has been called:
\* then it closes ln and returns http.ErrServerClosed
SrvServe ==
    /\ ~exited /\ pcSrv = "serve"
    /\ IF inShutdown
       THEN srvErr' = "ErrServerClosed" /\ pcSrv' = "err58" /\ listening' = listening
       ELSE srvErr' = srvErr /\ pcSrv' = "accepting" /\ listening' = TRUE
    /\ UNCHANGED <<srvLogged, inShutdown, conn>>
    /\ UNCHANGED srvUnchanged
    /\ UNCHANGED serveFrame

\* the accept loop takes a connection and a request begins on it
Accept(i) ==
    /\ ~exited /\ pcSrv = "accepting" /\ listening
    /\ conn[i] = "free"
    /\ conn' = [conn EXCEPT ![i] = "active"]
    /\ UNCHANGED <<pcSrv, srvErr, srvLogged, inShutdown, listening>>
    /\ UNCHANGED srvUnchanged
    /\ UNCHANGED serveFrame

\* Accept fails for good: Serve closes the listener and returns the error
SrvAcceptFail ==
    /\ ~exited /\ pcSrv = "accepting" /\ listening
    /\ listening' = FALSE
    /\ srvErr' = "accept"
    /\ pcSrv' = "err58"
    /\ UNCHANGED <<srvLogged, inShutdown, conn>>
    /\ UNCHANGED srvUnchanged
    /\ UNCHANGED serveFrame

\* Shutdown closed the listener: Accept fails and Serve returns
\* http.ErrServerClosed
SrvServeClosed ==
    /\ ~exited /\ pcSrv = "accepting" /\ inShutdown
    /\ srvErr' = "ErrServerClosed"
    /\ pcSrv' = "err58"
    /\ UNCHANGED <<srvLogged, inShutdown, listening, conn>>
    /\ UNCHANGED srvUnchanged
    /\ UNCHANGED serveFrame

\* main.go:58-60  if err != nil { log.Error(err) }; the goroutine ends
SrvLogError ==
    /\ ~exited /\ pcSrv = "err58"
    /\ srvLogged' = TRUE
    /\ pcSrv' = "done"
    /\ UNCHANGED <<srvErr, inShutdown, listening, conn>>
    /\ UNCHANGED srvUnchanged
    /\ UNCHANGED serveFrame

\* the handler of connection i returns and its response is complete.  While
\* Shutdown waits, the last connection to finish completes the shutdown.
Finish(i) ==
    /\ ~exited /\ conn[i] = "active"
    /\ conn' = [conn EXCEPT ![i] = "done"]
    /\ sdOutcome' = IF sdOutcome = "pending" /\ Active = {i} THEN "complete"
                    ELSE sdOutcome
    /\ UNCHANGED <<pcMain, pcSrv, srvErr, srvLogged, inShutdown, listening, registered,
                   c, nsig, now, deadline, sdActive, sigActive, shutdownErr, exited,
                   exitCode, fatalLogged>>
    /\ UNCHANGED serveFrame

\* ---- the environment ----

\* the operating system delivers signal s.  os/signal relays a signal that
\* signal.Notify registered to c without blocking (it is dropped when c is
\* full); the Go runtime ends the process on a SIGINT or SIGTERM that is not
\* registered (exit status 128 + the signal's number).
Signal(s) ==
    /\ ~exited /\ nsig < MaxSignals
    /\ nsig' = nsig + 1
    /\ IF s \in registered
       THEN /\ c' = IF Len(c) < 1 THEN Append(c, s) ELSE c
            /\ UNCHANGED <<conn, exited, exitCode>>
       ELSE /\ Exit(128 + Signum[s])
            /\ c' = c
    /\ UNCHANGED <<pcMain, pcSrv, srvErr, srvLogged, inShutdown, listening, registered,
                   now, deadline, sdOutcome, sdActive, sigActive, shutdownErr,
                   fatalLogged>>
    /\ UNCHANGED serveFrame

\* time passes; ctx expires when the clock reaches its deadline
Tick ==
    /\ ~exited /\ deadline >= 0 /\ now < MaxTime
    /\ now' = now + 1
    /\ sdOutcome' = IF sdOutcome = "pending" /\ now + 1 >= deadline THEN "expired"
                    ELSE sdOutcome
    /\ UNCHANGED <<pcMain, pcSrv, srvErr, srvLogged, inShutdown, listening, registered,
                   c, nsig, deadline, sdActive, sigActive, shutdownErr, conn, exited,
                   exitCode, fatalLogged>>
    /\ UNCHANGED serveFrame

----------------------------------------------------------------------------
\* Specifications.

\* the process at main.go:57, for every -graceful-timeout
Init ==
    /\ redirect = DefaultRedirect
    /\ wait \in 0..MaxWait
    /\ ServeInit
    /\ LifeInit

Next ==
    \/ MainGo
    \/ MainMakeChan
    \/ MainNotifyInt
    \/ MainNotifyTerm
    \/ MainRecv
    \/ MainContext
    \/ MainShutdown
    \/ MainShutdownReturn
    \/ MainFatal
    \/ MainExit
    \/ SrvListenAndServe
    \/ SrvListenOk
    \/ SrvListenFail
    \/ SrvServe
    \/ \E i \in Conns : Accept(i)
    \/ SrvAcceptFail
    \/ SrvServeClosed
    \/ SrvLogError
    \/ \E i \in Conns : Finish(i)
    \/ \E s \in Signals : Signal(s)
    \/ Tick

Spec == Init /\ [][Next]_vars

\* the server in its serving state (main blocked at main.go:66, the goroutine
\* in its accept loop), for every -redirect
ServingState ==
    /\ pcMain = "recv66"
    /\ pcSrv = "accepting"
    /\ srvErr = "none"
    /\ srvLogged = FALSE
    /\ inShutdown = FALSE
    /\ listening = TRUE
    /\ registered = Signals
    /\ c = <<>>
    /\ nsig = 0
    /\ now = 0
    /\ deadline = -1
    /\ sdOutcome = "none"
    /\ sdActive = {}
    /\ sigActive = {}
    /\ shutdownErr = "none"
    /\ conn = [i \in Conns |-> IF i = 1 THEN "active" ELSE "free"]
    /\ exited = FALSE
    /\ exitCode = 0
    /\ fatalLogged = FALSE

InitServe ==
    /\ redirect \in Targets
    /\ wait = 0
    /\ ServeInit
    /\ ServingState

SpecServe == InitServe /\ [][NextServe]_vars

----------------------------------------------------------------------------
\* Claims about the handler chain (SpecServe).

\* the last request is finished: req, resp and logged describe it
Finished == pc = Idle /\ served > 0
\* the router passed the request on to the route's handler
Reached == cleanPath(req.path) = req.path
BeforeHeader == {"beforeLocation", "beforeWriteHeader"}

\* C1: every request, whatever its method, path and query, that is served in
\* the serving state and whose handler raises no fault is answered with 301
\* and a Location equal to the configured redirect target.
C1_EveryRequestRedirectedToTarget ==
    (Finished /\ pcSrv = "accepting" /\ req.fault = "none")
        => /\ ~resp.dropped
           /\ resp.status = 301
           /\ resp.header.Location = [url |-> redirect, query |-> ""]

\* C2 as stated: a request whose handler panics always gets a complete
\* response with status 500, the fixed body and Connection: close.
C2_PanicAlways500 ==
    (Finished /\ Reached /\ req.fault # "none")
        => /\ ~resp.dropped
           /\ resp.status = 500
           /\ resp.body = <<ErrorBody>>
           /\ resp.header.Connection = "close"

\* C2 as amended: a request whose handler panics before it has written the
\* response header gets a complete response with status 500, the fixed body
\* and Connection: close; a request whose handler panics later keeps the
\* header already sent and gets the fixed text at the end of its body; in
\* both cases the panic stops at recoverPanic, the connection is not dropped
\* and the serving loop goes on to the next request.
C2_PanicBeforeHeader500 ==
    /\ (Finished /\ Reached /\ req.fault \in BeforeHeader)
          => /\ ~resp.dropped
             /\ resp.status = 500
             /\ resp.body = <<ErrorBody>>
             /\ resp.header.Connection = "close"
    /\ (Finished /\ Reached /\ req.fault # "none")
          => /\ ~resp.dropped
             /\ resp.body # <<>>
             /\ Last(resp.body) = ErrorBody
    /\ pc.ph = "panic" => pc.k >= 1
    /\ Finished => ~resp.dropped

\* two requests in a row whose handlers panicked; the later one got its 500
C2_Witness ==
    /\ Finished /\ Reached
    /\ served >= 2 /\ recovered >= 2
    /\ req.fault \in BeforeHeader
    /\ resp.status = 500

\* C7: every request the server answers has exactly one access log line,
\* written only after the wrapped handler has completed, and writing it
\* leaves the response as the wrapped handler made it.
C7_OneAccessLogLinePerRequest ==
    /\ [](Finished => Len(logged) = 1)
    /\ [][Len(logged') > Len(logged) => (pc.ph = "ret" /\ w' = w)]_vars

----------------------------------------------------------------------------
\* Claims about the lifecycle (Spec).

\* main has taken a signal from c
SignalReceived == pcMain \in {"ctx67", "shutdown69", "wait69", "ret69", "exited"}
\* srv.Shutdown has been called
ShutdownCalled == pcMain \in {"wait69", "ret69", "exited"}
\* no step opens a connection
NoNewConn == \A i \in Conns : conn'[i] = "active" => conn[i] = "active"

\* the lifecycle state of spec section 4.4
Lifecycle ==
    IF exited THEN "stopped"
    ELSE IF SignalReceived THEN "shutting-down"
    ELSE IF pcSrv = "accepting" \/ srvErr = "accept" THEN "serving"
    ELSE "starting"

Rank(l) ==
    CASE l = "starting" -> 0
      [] l = "serving" -> 1
      [] l = "shutting-down" -> 2
      [] l = "stopped" -> 3

\* C3 as stated: once main has received SIGINT or SIGTERM no connection is
\* accepted any more, and a request is cut off by the shutdown or the exit
\* only if the graceful timeout has elapsed.
C3_NoAcceptAfterSignal ==
    /\ [][SignalReceived => NoNewConn]_vars
    /\ [](\A i \in Conns : (pcMain = "exited" /\ conn[i] = "aborted")
             => (shutdownErr = "deadline" /\ now >= deadline))

\* C3 as amended: once srv.Shutdown has been called no connection is
\* accepted any more (between the receipt of the signal and that call the
\* accept loop still runs), and a request is cut off by the shutdown or the
\* exit only if the graceful timeout has elapsed.
C3_NoAcceptAfterShutdownCall ==
    /\ [][ShutdownCalled => NoNewConn]_vars
    /\ [](\A i \in Conns : (pcMain = "exited" /\ conn[i] = "aborted")
             => (shutdownErr = "deadline" /\ now >= deadline))
    /\ [](\A i \in Conns : (ShutdownCalled /\ conn[i] = "aborted") => exited)

\* requests in flight when the signal arrived, all finished before the
\* timeout, then a clean exit
C3_Witness ==
    /\ pcMain = "exited" /\ exitCode = 0
    /\ sigActive # {} /\ sdActive # {}
    /\ \A i \in sigActive : conn[i] = "done"
    /\ now < deadline

\* C4: when ctx expires while a request is still in flight, srv.Shutdown's
\* error is logged as fatal and the process exits with a code other than 0,
\* cutting off the requests still in flight.
C4_TimeoutIsFatal ==
    /\ sdOutcome = "expired" => ~(exited /\ exitCode = 0)
    /\ (pcMain = "exited" /\ sdOutcome = "expired")
          => (exitCode # 0 /\ fatalLogged /\ Active = {})
    /\ (pcMain = "wait69" /\ sdOutcome = "pending") => (Active # {} /\ now < deadline)
    /\ (pcMain = "wait69" /\ Active # {} /\ now >= deadline) => sdOutcome = "expired"

\* the timeout elapsed with a request in flight: exit 1, the request cut off
C4_Witness ==
    /\ pcMain = "exited" /\ sdOutcome = "expired"
    /\ exitCode = 1 /\ fatalLogged
    /\ \E i \in Conns : conn[i] = "aborted"

C6_ListenFailureOnlyLogged ==
    /\ [][(srvErr' # srvErr \/ srvLogged' # srvLogged)
             => UNCHANGED <<pcMain, exited, exitCode>>]_vars
    /\ []((srvErr \in {"bind", "accept"} /\ exited)
             => (nsig > 0 /\ pcMain = "exited" /\ shutdownErr # "none"))

\* C8: the lifecycle only moves forward, shutting-down is entered only by
\* taking a SIGINT or SIGTERM, stopped is reached only from shutting-down,
\* and in every state SIGINT and SIGTERM are treated alike and lead to the
\* same exit code.
C8_LifecycleForward ==
    /\ [][Rank(Lifecycle') >= Rank(Lifecycle)]_vars
    /\ [][(Lifecycle' = "shutting-down" /\ Lifecycle # "shutting-down")
             => (c # <<>> /\ Head(c) \in Signals)]_vars
    /\ [][(Lifecycle' = "stopped" /\ Lifecycle # "stopped")
             => Lifecycle = "shutting-down"]_vars
    /\ [](~exited => ("SIGINT" \in registered <=> "SIGTERM" \in registered))
    /\ [](exited => exitCode = (IF shutdownErr = "nil" THEN 0 ELSE 1))

====
